---- MODULE Spec2Model ----
(***************************************************************************)
(* Reminder-App: an authenticated CRUD service over two MySQL tables,      *)
(* users and events.  The model keeps the two tables, the HTTP workers     *)
(* (one handler invocation per in-flight request, each store statement a   *)
(* separate atomic step) and the main goroutine's shutdown sequence.       *)
(***************************************************************************)
EXTENDS Integers, FiniteSets, Sequences, TLC

\* Number of requests the server admits in one run.
MaxRequests == 3

\* Concurrent handler invocations (fasthttp worker goroutines).
Procs == {1, 2}

Usernames == {"alice", "bob"}
Passwords == {"pw1", "pw2"}
\* A password bcrypt refuses to hash (longer than 72 bytes).
LongPassword == "pw-longer-than-72-bytes"
Names == {"X", "Y"}

VARIABLES users, events, nextEventId, req, mainPc, poolClosed, nreq

vars == <<users, events, nextEventId, req, mainPc, poolClosed, nreq>>

---------------------------------------------------------------------------
\* Values

\* handlers.Events{Name, Date, Message}
EventsStruct(n, m, d) == [name |-> n, message |-> m, date |-> d]

\* new(Events): every field the empty string
NewEvents == EventsStruct("", "", "")

\* A JWT as the gate sees it: present in the Authorization header or not, its
\* signature good under SECRET_KEY or not, its exp in the past or not, and the
\* "username" entry of its MapClaims (a string, absent, or a JSON number).
Token(present, sig, expired, kind, val) ==
    [present |-> present, sig |-> sig, expired |-> expired,
     claim |-> [kind |-> kind, val |-> val]]

NoToken == Token(FALSE, FALSE, FALSE, "absent", "")

\* jwtSigner: HS256 over {"username": username, "exp": now + 1 year}
jwtSigner(username) == Token(TRUE, TRUE, FALSE, "string", username)

\* The tokens requests carry.
Tokens ==
    {NoToken,
     Token(TRUE, FALSE, FALSE, "string", "alice"),
     Token(TRUE, TRUE, TRUE, "string", "alice"),
     Token(TRUE, TRUE, FALSE, "absent", ""),
     Token(TRUE, TRUE, FALSE, "number", "")}
    \cup {jwtSigner(u) : u \in Usernames}

\* Bodies of POST /api/v1/event: name, message and date all given.
CreateBodies == {EventsStruct(n, "m1", "d1") : n \in Names}

\* Bodies of PUT /api/v1/event/:name: omitted fields are empty.  One patch per
\* single field, the empty patch and a patch of all three.
Patches ==
    {EventsStruct(n, "", "") : n \in Names \cup {""}}
    \cup {EventsStruct("", "m2", ""), EventsStruct("", "", "d2"),
          EventsStruct("X", "m2", "d2")}

\* A body json.Unmarshal rejects.
BadJSON == EventsStruct("{", "{", "{")

\* The routes of the /api/v1 group.
ProtectedRoutes == {"create", "get", "update", "delete"}

\* bcrypt.GenerateFromPassword: a salted one-way hash, or an error.
HashFails(password) == password = LongPassword

Hash(password) == <<"bcrypt", password>>

\* bcrypt.CompareHashAndPassword
CompareHashAndPassword(hash, password) == hash = Hash(password)

\* A worker's request context and response: the route, the bearer token, the
\* :name parameter (the username on the public routes), the submitted password,
\* the parsed body, the handler's locals (uid, id, old) and the response
\* (status, event_id, details, token).
IdleSlot ==
    [pc |-> "idle", route |-> "none", tok |-> NoToken, name |-> "", password |-> "",
     body |-> NewEvents, uid |-> 0, id |-> 0, old |-> NewEvents,
     status |-> 0, rid |-> 0, details |-> NewEvents, token |-> NoToken]

\* A response written: the handler returned.
Respond(s, status) ==
    [IdleSlot EXCEPT !.pc = "done", !.route = s.route, !.tok = s.tok, !.name = s.name,
                     !.password = s.password, !.uid = s.uid, !.status = status]

\* The request as the router hands it to a worker.
Request(route, tok, name) ==
    [IdleSlot EXCEPT !.pc = route, !.route = route, !.tok = tok, !.name = name]

---------------------------------------------------------------------------
\* The store: one parameterized SQL statement each

UserIds(us) == {u.id : u \in us}

\* users.username UNIQUE
UsernameTaken(us, username) == \E u \in us : u.username = username

\* Mutant: the users table without UNIQUE on username.
InsertUser_NoUnique(us, username, hash) ==
    [err |-> FALSE,
     rows |-> us \cup {[id |-> Cardinality(us) + 1, username |-> username,
                        password |-> hash]}]

\* INSERT INTO users (username, password) VALUES (?, ?)
InsertUser(us, username, hash) ==
    IF UsernameTaken(us, username)
    THEN [err |-> TRUE, rows |-> us]
    ELSE [err |-> FALSE,
          rows |-> us \cup {[id |-> Cardinality(us) + 1, username |-> username,
                             password |-> hash]}]

\* SELECT id FROM users WHERE username = ?  (Scan error: 0)
SelectUserId(us, username) ==
    IF \E u \in us : u.username = username
    THEN (CHOOSE u \in us : u.username = username).id
    ELSE 0

\* Mutant: the events table without UNIQUE (name, user_id).
UniqueNameOwner_Dropped(ev, id, name, uid) == TRUE

\* UNIQUE (name, user_id): no row other than `id` holds the pair
UniqueNameOwner(ev, id, name, uid) ==
    ~ \E r \in ev : r.id # id /\ r.name = name /\ r.user_id = uid

\* INSERT INTO events (name, message, date, user_id) VALUES(?,?,?,?)
InsertEvent(ev, us, next, e, uid) ==
    IF uid \notin UserIds(us) \/ ~UniqueNameOwner(ev, next, e.name, uid)
    THEN [err |-> TRUE, rows |-> ev]
    ELSE [err |-> FALSE,
          rows |-> ev \cup {[id |-> next, name |-> e.name, message |-> e.message,
                             date |-> e.date, user_id |-> uid]}]

\* SELECT id, name, message, date FROM events WHERE name = ? and user_id = ?
SelectEvent(ev, name, uid) == {r \in ev : r.name = name /\ r.user_id = uid}

\* UPDATE events SET name = ?, message = ?, date = ? WHERE id = ?
UpdateById(ev, id, e) ==
    LET hit == {r \in ev : r.id = id}
        set(r) == [r EXCEPT !.name = e.name, !.message = e.message, !.date = e.date]
    IN  IF \E r \in hit : ~UniqueNameOwner(ev, id, e.name, r.user_id)
        THEN [err |-> TRUE, rows |-> ev]
        ELSE [err |-> FALSE, rows |-> (ev \ hit) \cup {set(r) : r \in hit}]

\* Mutant: DELETE FROM events WHERE name = ?
DeleteWhere_AnyOwner(ev, name, uid) ==
    LET hit == {r \in ev : r.name = name}
    IN  [affected |-> Cardinality(hit), rows |-> ev \ hit]

\* DELETE FROM events WHERE name = ? and user_id = ?
DeleteWhere(ev, name, uid) ==
    LET hit == {r \in ev : r.name = name /\ r.user_id = uid}
    IN  [affected |-> Cardinality(hit), rows |-> ev \ hit]

---------------------------------------------------------------------------
\* The gate and the identity resolver

\* Mutant: a gate that does not look at exp.
jwtware_NoExpiry(tok) ==
    IF ~tok.present THEN 400
    ELSE IF ~tok.sig THEN 401
    ELSE 0

\* jwtware.New(Config{SigningKey}) with its default ErrorHandler: 0 lets the
\* request through; a missing or malformed header is answered 400, a token
\* that fails verification (signature, exp) 401.
jwtware(tok) ==
    IF ~tok.present THEN 400
    ELSE IF ~tok.sig \/ tok.expired THEN 401
    ELSE 0

\* claims["username"].(string): the unchecked assertion panics unless the
\* entry is a string.
ClaimPanics(tok) == tok.claim.kind # "string"

getUserID(tok, us) == SelectUserId(us, tok.claim.val)

\* Mutant: the patch written over the row whether or not a field is empty.
UpdateFields_Overwrite(old, new) == EventsStruct(new.name, new.message, new.date)

\* UpdateEvent: "Update fields if new values are provided"
UpdateFields(old, new) ==
    EventsStruct(IF new.name # "" THEN new.name ELSE old.name,
                 IF new.message # "" THEN new.message ELSE old.message,
                 IF new.date # "" THEN new.date ELSE old.date)

---------------------------------------------------------------------------
\* Connect() creates the tables only if they do not exist: the server starts on
\* whatever rows the database holds, here none or one user of an earlier run.
InitialUsers ==
    {{}, {[id |-> 1, username |-> "alice", password |-> Hash("pw1")]}}

Init ==
    /\ users \in InitialUsers
    /\ events = {}
    /\ nextEventId = 1
    /\ req = [p \in Procs |-> IdleSlot]
    /\ mainPc = "serving"
    /\ poolClosed = FALSE
    /\ nreq = 0

Free(p) == req[p].pc \in {"idle", "done"}

\* The response is sent and the worker takes the next request.
Complete(p) ==
    /\ mainPc \in {"serving", "draining"}
    /\ req[p].pc = "done"
    /\ req' = [req EXCEPT ![p] = IdleSlot]
    /\ UNCHANGED <<users, events, nextEventId, mainPc, poolClosed, nreq>>

\* The listener hands a new request to worker p.
Admit(p) ==
    /\ mainPc = "serving"
    /\ nreq < MaxRequests
    /\ req[p].pc = "idle"
    /\ nreq' = nreq + 1

\* A handler in flight takes its next step.
Running(p, pc) ==
    /\ mainPc \in {"serving", "draining"}
    /\ req[p].pc = pc

\* POST /signup
signup(p, username, password) ==
    /\ Admit(p)
    /\ LET ins == InsertUser(users, username, Hash(password))
           r == Respond([Request("signup", NoToken, username)
                           EXCEPT !.password = password], 500)
       IN  IF HashFails(password)
           THEN /\ users' = users
                /\ req' = [req EXCEPT ![p] = r]
           ELSE /\ users' = ins.rows
                /\ req' = [req EXCEPT ![p] =
                             IF ins.err THEN r
                             ELSE [r EXCEPT !.status = 200,
                                            !.token = jwtSigner(username)]]
    /\ UNCHANGED <<events, nextEventId, mainPc, poolClosed>>

\* POST /login
login(p, username, password) ==
    /\ Admit(p)
    /\ LET found == {u \in users : u.username = username}
           r == Respond([Request("login", NoToken, username)
                           EXCEPT !.password = password], 400)
       IN  req' = [req EXCEPT ![p] =
                     IF found = {} THEN r
                     ELSE IF \E u \in found : ~CompareHashAndPassword(u.password, password)
                          THEN [r EXCEPT !.status = 401]
                          ELSE [r EXCEPT !.status = 200, !.token = jwtSigner(username)]]
    /\ UNCHANGED <<users, events, nextEventId, mainPc, poolClosed>>

\* The gate answers a request to a protected route itself.
JwtReject(p, route, tok) ==
    /\ Admit(p)
    /\ jwtware(tok) # 0
    /\ req' = [req EXCEPT ![p] = Respond(Request(route, tok, ""), jwtware(tok))]
    /\ UNCHANGED <<users, events, nextEventId, mainPc, poolClosed>>

\* A handler's start: the gate passed, the body parsed (create, update), then
\* getUserID.
Begin(p, route, tok, name, body) ==
    /\ Admit(p)
    /\ jwtware(tok) = 0
    /\ IF body = BadJSON
       THEN /\ req' = [req EXCEPT ![p] = Respond(Request(route, tok, name), 400)]
            /\ UNCHANGED mainPc
       ELSE IF ClaimPanics(tok)
       THEN /\ req' = [q \in Procs |->
                         IF q = p
                         THEN [Request(route, tok, name) EXCEPT !.pc = "panic"]
                         ELSE IF Free(q) THEN IdleSlot
                         ELSE [IdleSlot EXCEPT !.pc = "aborted", !.route = req[q].route]]
            /\ mainPc' = "crashed"
       ELSE /\ req' = [req EXCEPT ![p] =
                         [Request(route, tok, name) EXCEPT !.body = body,
                                          !.uid = getUserID(tok, users)]]
            /\ UNCHANGED mainPc
    /\ UNCHANGED <<users, events, nextEventId, poolClosed>>

CreateEventBegin(p, tok, body) == Begin(p, "create", tok, "", body)

CreateEventExec(p) ==
    /\ Running(p, "create")
    /\ LET s == req[p]
           ins == InsertEvent(events, users, nextEventId, s.body, s.uid)
       IN  /\ events' = ins.rows
           /\ nextEventId' = IF ins.err THEN nextEventId ELSE nextEventId + 1
           /\ req' = [req EXCEPT ![p] =
                        Respond(s, IF ins.err THEN 500 ELSE 200)]
    /\ UNCHANGED <<users, mainPc, poolClosed, nreq>>

GetEventBegin(p, tok, name) == Begin(p, "get", tok, name, NewEvents)

\* On sql.ErrNoRows the 404 envelope is written and, with no return, the
\* 500 envelope after it: the response carries the last status set.
GetEventExec(p) ==
    /\ Running(p, "get")
    /\ LET s == req[p]
           rows == SelectEvent(events, s.name, s.uid)
           r == Respond(s, 500)
       IN  req' = [req EXCEPT ![p] =
                     IF rows = {} THEN r
                     ELSE LET e == CHOOSE x \in rows : TRUE
                          IN  [r EXCEPT !.status = 200, !.rid = e.id,
                                        !.details = EventsStruct(e.name, e.message, e.date)]]
    /\ UNCHANGED <<users, events, nextEventId, mainPc, poolClosed, nreq>>

UpdateEventBegin(p, tok, name, patch) == Begin(p, "update", tok, name, patch)

\* "Fetch the current details of the event"
UpdateEventFetch(p) ==
    /\ Running(p, "update")
    /\ LET s == req[p]
           rows == SelectEvent(events, s.name, s.uid)
       IN  req' = [req EXCEPT ![p] =
                     IF rows = {} THEN Respond(s, 404)
                     ELSE LET e == CHOOSE x \in rows : TRUE
                          IN  [s EXCEPT !.pc = "write", !.id = e.id,
                                        !.old = EventsStruct(e.name, e.message, e.date)]]
    /\ UNCHANGED <<users, events, nextEventId, mainPc, poolClosed, nreq>>

\* The merge, then the UPDATE keyed by the fetched id; the rows affected are
\* not looked at.
UpdateEventWrite(p) ==
    /\ Running(p, "write")
    /\ LET s == req[p]
           upd == UpdateById(events, s.id, UpdateFields(s.old, s.body))
       IN  /\ events' = upd.rows
           /\ req' = [req EXCEPT ![p] =
                        IF upd.err THEN Respond(s, 500)
                        ELSE [Respond(s, 200) EXCEPT !.rid = s.id]]
    /\ UNCHANGED <<users, nextEventId, mainPc, poolClosed, nreq>>

DeleteEventBegin(p, tok, name) == Begin(p, "delete", tok, name, NewEvents)

DeleteEventExec(p) ==
    /\ Running(p, "delete")
    /\ LET s == req[p]
           del == DeleteWhere(events, s.name, s.uid)
       IN  /\ events' = del.rows
           /\ req' = [req EXCEPT ![p] =
                        Respond(s, IF del.affected = 0 THEN 404 ELSE 200)]
    /\ UNCHANGED <<users, nextEventId, mainPc, poolClosed, nreq>>

---------------------------------------------------------------------------
\* main: <-stop, app.Shutdown(), deferred db.Close()

InFlight == {p \in Procs : ~Free(p)}

\* A request cut off by the process ending: no response was written.
Aborted(s) == [IdleSlot EXCEPT !.pc = "aborted", !.route = s.route]

\* The signal arrives and app.Shutdown closes the listeners; it then waits
\* for the open connections.
ShutdownBegin ==
    /\ mainPc = "serving"
    /\ mainPc' = "draining"
    /\ UNCHANGED <<users, events, nextEventId, req, poolClosed, nreq>>

\* app.Shutdown returns nil once no request is in flight; main returns and
\* the deferred db.Close() runs.
ShutdownDone ==
    /\ mainPc = "draining"
    /\ InFlight = {}
    /\ mainPc' = "exited"
    /\ poolClosed' = TRUE
    /\ req' = [p \in Procs |-> IdleSlot]
    /\ UNCHANGED <<users, events, nextEventId, nreq>>

\* app.Shutdown returns an error: log.Fatalf calls os.Exit(1), which runs no
\* deferred call and ends every goroutine where it stands.
ShutdownError ==
    /\ mainPc = "serving"
    /\ mainPc' = "exited"
    /\ req' = [p \in Procs |-> IF Free(p) THEN IdleSlot ELSE Aborted(req[p])]
    /\ UNCHANGED <<users, events, nextEventId, poolClosed, nreq>>

Next ==
    \/ \E p \in Procs, u \in Usernames, pw \in Passwords \cup {LongPassword} :
          signup(p, u, pw)
    \/ \E p \in Procs, u \in Usernames, pw \in Passwords : login(p, u, pw)
    \/ \E p \in Procs, r \in ProtectedRoutes, t \in Tokens : JwtReject(p, r, t)
    \/ \E p \in Procs, t \in Tokens, b \in CreateBodies \cup {BadJSON} :
          CreateEventBegin(p, t, b)
    \/ \E p \in Procs : CreateEventExec(p)
    \/ \E p \in Procs, t \in Tokens, n \in Names : GetEventBegin(p, t, n)
    \/ \E p \in Procs : GetEventExec(p)
    \/ \E p \in Procs, t \in Tokens, n \in Names, b \in Patches \cup {BadJSON} :
          UpdateEventBegin(p, t, n, b)
    \/ \E p \in Procs : UpdateEventFetch(p)
    \/ \E p \in Procs : UpdateEventWrite(p)
    \/ \E p \in Procs, t \in Tokens, n \in Names : DeleteEventBegin(p, t, n)
    \/ \E p \in Procs : DeleteEventExec(p)
    \/ \E p \in Procs : Complete(p)
    \/ ShutdownBegin
    \/ ShutdownDone
    \/ ShutdownError

Spec == Init /\ [][Next]_vars

---------------------------------------------------------------------------
\* Steps and states the properties speak of

\* Worker p is handed a request in this step.
AdmitStep(p) == req[p].pc = "idle" /\ req'[p].pc # "idle"

\* Worker p runs the statement at `pc` and writes its response in this step.
ExecStep(p, pc) == req[p].pc = pc /\ req'[p].pc = "done"

\* The token is present, signed with the secret and not expired.
TokenVerifies(t) == t.present /\ t.sig /\ ~t.expired

\* The rows of `ev` named `name` and owned by `uid`.
RowsOf(ev, name, uid) == {r \in ev : r.name = name /\ r.user_id = uid}

\* The field-wise merge the contract asks for: the patch's value where it is
\* non-empty, the old value otherwise.
Patched(old, patch) ==
    [name |-> IF patch.name = "" THEN old.name ELSE patch.name,
     message |-> IF patch.message = "" THEN old.message ELSE patch.message,
     date |-> IF patch.date = "" THEN old.date ELSE patch.date]

\* Row r with its three data fields set from e, its id and owner kept.
WithFields(r, e) ==
    [id |-> r.id, name |-> e.name, message |-> e.message, date |-> e.date,
     user_id |-> r.user_id]

\* No two rows share (name, user_id).
UniquePairs(ev) ==
    \A r1 \in ev, r2 \in ev : (r1.name = r2.name /\ r1.user_id = r2.user_id) => r1 = r2

---------------------------------------------------------------------------
\* C1: ownership isolation.  A Get returns only a row owned by the resolved
\* user, no handler step changes or removes a row of another owner, and a Get
\* of a name that only another user owns answers 404 and changes nothing.
C1_OwnershipIsolation ==
    [][\A p \in Procs :
          /\ ExecStep(p, "get") =>
                /\ req'[p].status = 200 =>
                      \E r \in RowsOf(events, req[p].name, req[p].uid) : r.id = req'[p].rid
                /\ (/\ RowsOf(events, req[p].name, req[p].uid) = {}
                    /\ \E r \in events : r.name = req[p].name /\ r.user_id # req[p].uid) =>
                      req'[p].status = 404
                /\ events' = events
          /\ (req[p].pc \in {"create", "get", "update", "write", "delete"}
                 /\ req'[p] # req[p]) =>
                \A r \in events : r.user_id # req[p].uid => r \in events'
      ]_vars

\* C2: a Get that matches no row (name, userID), the sentinel user id 0
\* included, answers 404 and never a server error.
C2_GetMissingIsNotFound ==
    [][\A p \in Procs :
          (ExecStep(p, "get") /\ ~ \E r \in events :
                                     r.name = req[p].name /\ r.user_id = req[p].uid)
             => req'[p].status = 404
      ]_vars

\* C3 as stated: an Update whose row exists stores exactly the field-wise merge
\* of the fetched row and the patch, keyed by id (id and owner kept, no other
\* row changed) and answers 200; an Update that matches no row answers 404 and
\* changes nothing.
C3_UpdateStoresMerge ==
    [][\A p \in Procs :
          /\ ExecStep(p, "write") =>
                \A r \in events :
                   r.id = req[p].id =>
                      /\ events' = (events \ {r})
                                      \cup {WithFields(r, Patched(req[p].old, req[p].body))}
                      /\ req'[p].status = 200
          /\ (ExecStep(p, "update") /\ RowsOf(events, req[p].name, req[p].uid) = {}) =>
                /\ req'[p].status = 404
                /\ events' = events
      ]_vars

\* C3 amended: as C3, unless the merged name is the name of another row of the
\* same owner: then the store rejects the write, the Update answers 500 and no
\* row changes.  A write whose row is gone changes no row.
C3_UpdateStoresMergeUnlessDuplicate ==
    [][\A p \in Procs :
          /\ ExecStep(p, "write") =>
                LET m == Patched(req[p].old, req[p].body)
                    cur == {r \in events : r.id = req[p].id}
                IN  /\ cur = {} => events' = events
                    /\ \A r \in cur :
                          IF \E o \in events :
                                o.id # r.id /\ o.name = m.name /\ o.user_id = r.user_id
                          THEN /\ req'[p].status = 500
                               /\ events' = events
                          ELSE /\ events' = (events \ {r}) \cup {WithFields(r, m)}
                               /\ req'[p].status = 200
                               /\ req'[p].rid = r.id
          /\ (ExecStep(p, "update") /\ RowsOf(events, req[p].name, req[p].uid) = {}) =>
                /\ req'[p].status = 404
                /\ events' = events
          /\ (req[p].pc \in {"update", "write"} /\ req'[p] # req[p]) => users' = users
      ]_vars

\* C3 witness: an Update answered 200 and its row holds the patched message
\* beside the date it was created with (the patch left the date out).
C3_Witness ==
    \E p \in Procs :
       /\ req[p].pc = "done" /\ req[p].route = "update" /\ req[p].status = 200
       /\ \E r \in events : r.id = req[p].rid /\ r.message = "m2" /\ r.date = "d1"

\* C4: a Delete removes exactly the one row matching (name, userID) and answers
\* 200, after which no such row exists and every other row is unchanged; when
\* no row matches it answers 404 and the store is unchanged.
C4_DeleteExactlyTheRow ==
    [][\A p \in Procs :
          ExecStep(p, "delete") =>
             LET hit == RowsOf(events, req[p].name, req[p].uid)
             IN  /\ users' = users
                 /\ IF hit # {}
                    THEN /\ Cardinality(hit) = 1
                         /\ req'[p].status = 200
                         /\ events' = events \ hit
                         /\ RowsOf(events', req[p].name, req[p].uid) = {}
                    ELSE /\ req'[p].status = 404
                         /\ events' = events
      ]_vars

\* C4 witness: a Delete answered 200, its row is gone and another row is
\* still stored.
C4_Witness ==
    \E p \in Procs :
       /\ req[p].pc = "done" /\ req[p].route = "delete" /\ req[p].status = 200
       /\ RowsOf(events, req[p].name, req[p].uid) = {}
       /\ events # {}

\* C5: no two rows ever share (name, owner_id); a Create, or an Update whose
\* merged name is taken by another row of the owner, is rejected by the store,
\* answers 500 and leaves every row unchanged.
C5_UniqueNamePerOwner ==
    /\ [] UniquePairs(events)
    /\ [][\A p \in Procs :
             /\ (ExecStep(p, "create")
                    /\ RowsOf(events, req[p].body.name, req[p].uid) # {}) =>
                   /\ req'[p].status = 500
                   /\ events' = events
             /\ ExecStep(p, "write") =>
                   \A r \in events :
                      (/\ r.id = req[p].id
                       /\ \E o \in RowsOf(events, Patched(req[p].old, req[p].body).name,
                                          r.user_id) : o.id # r.id) =>
                         /\ req'[p].status = 500
                         /\ events' = events
         ]_vars

\* C5 witness: a Create by a resolved user (the foreign key holds) answered
\* 500: the store refused the pair (name, owner_id) as a duplicate.
C5_Witness ==
    \E p \in Procs :
       /\ req[p].pc = "done" /\ req[p].route = "create" /\ req[p].status = 500
       /\ req[p].uid # 0
       /\ events # {}

C7_ResolveNeverRaises ==
    [][\A p \in Procs :
          (/\ AdmitStep(p)
           /\ req'[p].route \in ProtectedRoutes
           /\ TokenVerifies(req'[p].tok)
           /\ req'[p].status # 400) =>
             /\ req'[p].pc # "panic"
             /\ mainPc' = mainPc
             /\ LET c == req'[p].tok.claim
                    named == {u \in users : c.kind = "string" /\ u.username = c.val}
                IN  /\ named = {} => req'[p].uid = 0
                    /\ \A u \in named : req'[p].uid = u.id
      ]_vars

\* C8 as stated: a Signup with a username already taken answers Conflict (409),
\* issues no token and leaves the users table unchanged; a Signup with an
\* unused username adds exactly one row and returns a token for that username.
C8_SignupConflict ==
    [][\A p \in Procs :
          (AdmitStep(p) /\ req'[p].route = "signup") =>
             IF \E u \in users : u.username = req'[p].name
             THEN /\ req'[p].status = 409
                  /\ req'[p].token = NoToken
                  /\ users' = users
             ELSE /\ req'[p].status = 200
                  /\ users \subseteq users'
                  /\ Cardinality(users' \ users) = 1
                  /\ \A u \in users' \ users :
                        /\ u.username = req'[p].name
                        /\ u.password # req'[p].password
                        /\ u.id \notin {x.id : x \in users}
                  /\ TokenVerifies(req'[p].token)
                  /\ req'[p].token.claim = [kind |-> "string", val |-> req'[p].name]
      ]_vars

\* C8 amended: a Signup with a username already taken answers Internal (500),
\* issues no token and leaves the users table unchanged; so does a Signup whose
\* password bcrypt cannot hash; any other Signup adds exactly one row, holding a
\* hash and not the password, and returns a token for that username.
C8_SignupDuplicateIsInternal ==
    [][\A p \in Procs :
          (AdmitStep(p) /\ req'[p].route = "signup") =>
             IF \/ \E u \in users : u.username = req'[p].name
                \/ req'[p].password = LongPassword
             THEN /\ req'[p].status = 500
                  /\ req'[p].token = NoToken
                  /\ users' = users
             ELSE /\ req'[p].status = 200
                  /\ users \subseteq users'
                  /\ Cardinality(users' \ users) = 1
                  /\ \A u \in users' \ users :
                        /\ u.username = req'[p].name
                        /\ u.password # req'[p].password
                        /\ u.id \notin {x.id : x \in users}
                  /\ TokenVerifies(req'[p].token)
                  /\ req'[p].token.claim = [kind |-> "string", val |-> req'[p].name]
      ]_vars

\* C8 witness: a Signup for a taken username with another password was
\* answered 500 without a token, and the stored hash is still the first one.
C8_Witness ==
    \E p \in Procs :
       /\ req[p].pc = "done" /\ req[p].route = "signup" /\ req[p].status = 500
       /\ req[p].password = "pw2" /\ req[p].token = NoToken
       /\ \E u \in users : u.username = req[p].name /\ u.password = Hash("pw1")
       /\ Cardinality({u \in users : u.username = req[p].name}) = 1

\* C9: cooperative shutdown.  The pool is released only when no request is in
\* flight, and on every path on which the process has exited after a signal
\* the pool was released and no in-flight request was cut off.
C9_CooperativeShutdown ==
    /\ poolClosed => \A p \in Procs : req[p].pc \in {"idle", "done"}
    /\ mainPc = "exited" =>
          /\ poolClosed
          /\ \A p \in Procs : req[p].pc # "aborted"

\* C10: concurrent mutations of one event are serializable: an Update's write
\* leaves every field its patch omits as the store holds it at that moment (it
\* does not write back a stale value over another Update's), and an Update
\* whose row is gone when its write runs does not answer 200.
C10_SerializableMutations ==
    [][\A p \in Procs :
          ExecStep(p, "write") =>
             LET cur == {r \in events : r.id = req[p].id}
             IN  /\ cur = {} => req'[p].status # 200
                 /\ \A r \in cur : \A n \in events' :
                       n.id = r.id =>
                          /\ req[p].body.name = "" => n.name = r.name
                          /\ req[p].body.message = "" => n.message = r.message
                          /\ req[p].body.date = "" => n.date = r.date
      ]_vars

====
